---------------------------- MODULE Spec2Model ----------------------------
(***************************************************************************)
(* Model of the EDM binary decoder (io_EDM/edm/parser.py, EdmParser) and   *)
(* of the vertex layout helper (io_EDM/edm/types.py, VertexFormat).        *)
(*                                                                         *)
(* A file is a sequence of bytes (0..255).  The decoder object is the      *)
(* record "self": the byte stream with its cursor, the version, the string *)
(* table, the exception in flight (exc) and two observation fields (the    *)
(* number of stream reads issued so far, and marks left at places of the   *)
(* code the properties speak about).  Every _read_* method is an operator  *)
(* from a decoder record to a pair [s |-> decoder after, v |-> value]; a   *)
(* Python exception is exc # "none", after which every operator is a       *)
(* no-op, as the exception unwinds to the caller of parse().               *)
(*                                                                         *)
(* Python values are records tagged by their class in the field "kind".    *)
(* Floats and doubles are kept as the raw bytes read.  A u32 is the        *)
(* little-endian value of its four bytes; the files enumerated keep the    *)
(* top byte below 128 so that the value stays inside TLC's integers.       *)
(***************************************************************************)
EXTENDS Integers, Sequences, FiniteSets, TLC

(***************************************************************************)
(* Byte-level helpers.                                                     *)
(***************************************************************************)
Min(a, b) == IF a < b THEN a ELSE b

RECURSIVE SumSeq(_)
SumSeq(q) == IF q = <<>> THEN 0 ELSE q[1] + SumSeq(Tail(q))

RECURSIVE Flatten(_)
Flatten(qq) == IF qq = <<>> THEN <<>> ELSE qq[1] \o Flatten(Tail(qq))

Zeros(n) == [i \in 1..n |-> 0]

\* struct.unpack('<I' / '<H' / '<B'): little-endian unsigned value of the bytes.
RECURSIVE LE(_)
LE(b) == IF b = <<>> THEN 0 ELSE b[1] + 256 * LE(Tail(b))

\* struct.unpack('<i'): two's complement on 4 bytes.
LEsigned(b) ==
    IF b[4] >= 128
    THEN b[1] + 256 * b[2] + 65536 * b[3] + 16777216 * (b[4] - 256)
    ELSE LE(b)

\* bytes.decode('windows-1251', 'replace') on one byte: the code point.
\* 0x00..0x7F are ASCII, 0xC0..0xFF are U+0410..U+044F, 0x98 is undefined
\* in the code page and is replaced by U+FFFD.
CP1251High ==
    << 1026, 1027, 8218, 1107, 8222, 8230, 8224, 8225, 8364, 8240, 1033, 8249,
       1034, 1036, 1035, 1039, 1106, 8216, 8217, 8220, 8221, 8226, 8211, 8212,
       65533, 8482, 1113, 8250, 1114, 1116, 1115, 1119, 160, 1038, 1118, 1032,
       164, 1168, 166, 167, 1025, 169, 1028, 171, 172, 173, 174, 1031, 176, 177,
       1030, 1110, 1169, 181, 182, 183, 1105, 8470, 1108, 187, 1112, 1029, 1109,
       1111 >>

DecodeByte(b) ==
    IF b < 128 THEN b
    ELSE IF b < 192 THEN CP1251High[b - 127]
    ELSE b + 848

Decode(bytes) == [i \in 1..Len(bytes) |-> DecodeByte(bytes[i])]

(***************************************************************************)
(* The string constants of the two dispatch tables, as code points.        *)
(***************************************************************************)
TagRootNode == <<109, 111, 100, 101, 108, 58, 58, 82, 111, 111, 116, 78, 111, 100, 101>>
TagNode == <<109, 111, 100, 101, 108, 58, 58, 78, 111, 100, 101>>
TagTransformNode ==
    <<109, 111, 100, 101, 108, 58, 58, 84, 114, 97, 110, 115, 102, 111, 114, 109,
      78, 111, 100, 101>>
TagRenderNode ==
    <<109, 111, 100, 101, 108, 58, 58, 82, 101, 110, 100, 101, 114, 78, 111, 100, 101>>
TagArgAnimationNode ==
    <<109, 111, 100, 101, 108, 58, 58, 65, 114, 103, 65, 110, 105, 109, 97, 116,
      105, 111, 110, 78, 111, 100, 101>>
TagArgRotationNode ==
    <<109, 111, 100, 101, 108, 58, 58, 65, 114, 103, 82, 111, 116, 97, 116, 105,
      111, 110, 78, 111, 100, 101>>
TagArgPositionNode ==
    <<109, 111, 100, 101, 108, 58, 58, 65, 114, 103, 80, 111, 115, 105, 116, 105,
      111, 110, 78, 111, 100, 101>>
TagPropertyUint ==
    <<109, 111, 100, 101, 108, 58, 58, 80, 114, 111, 112, 101, 114, 116, 121, 60,
      117, 110, 115, 105, 103, 110, 101, 100, 32, 105, 110, 116, 62>>
TagPropertyFloat ==
    <<109, 111, 100, 101, 108, 58, 58, 80, 114, 111, 112, 101, 114, 116, 121, 60,
      102, 108, 111, 97, 116, 62>>

\* keys of self._type_parsers
TypeTags ==
    { TagRootNode, TagNode, TagTransformNode, TagRenderNode, TagArgAnimationNode,
      TagArgRotationNode, TagArgPositionNode, TagPropertyUint, TagPropertyFloat }

KeyBLENDING == <<66, 76, 69, 78, 68, 73, 78, 71>>
KeyCULLING == <<67, 85, 76, 76, 73, 78, 71>>
KeyDEPTH_BIAS == <<68, 69, 80, 84, 72, 95, 66, 73, 65, 83>>
KeyTEXTURES == <<84, 69, 88, 84, 85, 82, 69, 83>>
KeyMATERIAL_NAME == <<77, 65, 84, 69, 82, 73, 65, 76, 95, 78, 65, 77, 69>>
KeyNAME == <<78, 65, 77, 69>>
KeySHADOWS == <<83, 72, 65, 68, 79, 87, 83>>
KeyVERTEX_FORMAT == <<86, 69, 82, 84, 69, 88, 95, 70, 79, 82, 77, 65, 84>>
KeyUNIFORMS == <<85, 78, 73, 70, 79, 82, 77, 83>>
KeyANIMATED_UNIFORMS ==
    <<65, 78, 73, 77, 65, 84, 69, 68, 95, 85, 78, 73, 70, 79, 82, 77, 83>>
KeyTEXTURE_COORDINATE_CHANNELS ==
    <<84, 69, 88, 84, 85, 82, 69, 95, 67, 79, 79, 82, 68, 73, 78, 65, 84, 69, 95,
      67, 72, 65, 78, 78, 69, 76, 83>>

\* keys of self._material_key_parsers
MaterialKeys ==
    { KeyBLENDING, KeyCULLING, KeyDEPTH_BIAS, KeyTEXTURES, KeyMATERIAL_NAME, KeyNAME,
      KeySHADOWS, KeyVERTEX_FORMAT, KeyUNIFORMS, KeyANIMATED_UNIFORMS,
      KeyTEXTURE_COORDINATE_CHANNELS }

(***************************************************************************)
(* The decoder object and the stream primitives.                           *)
(*                                                                         *)
(* A method of several statements is written as a chain of operators, one  *)
(* per statement, each handing the pair it read to the next.               *)
(***************************************************************************)
\* EdmParser.__init__; the stream is the content of the file at file_path.
NewParser(bytes) ==
    [ stream |-> bytes, pos |-> 0, version |-> 0, string_lookup |-> <<>>,
      exc |-> "none", nreads |-> 0, marks |-> <<>>, loops |-> <<>> ]

R(s, v) == [s |-> s, v |-> v]

Raise(s, e) == IF s.exc = "none" THEN [s EXCEPT !.exc = e] ELSE s

\* What a method returns: nothing once an exception is in flight.
Return(s, v) == IF s.exc # "none" THEN R(s, [kind |-> "None"]) ELSE R(s, v)

\* Observation only: remember that the decoder passed the place "what".
Mark(s, what, arg) ==
    IF s.exc # "none" THEN s
    ELSE [s EXCEPT !.marks = Append(@, [what |-> what, pos |-> s.pos,
                                        nreads |-> s.nreads, arg |-> arg])]

\* Observation only: the loops the decoder is inside of, innermost last.
\* Enter: "for _ in range(count)" starts, u32 being the count read from the
\* file last; Turn: one turn of the innermost loop starts; Leave: the
\* innermost loop has run out and is put down as a "loop_end" mark.
Enter(s, kind, count, u32) ==
    IF s.exc # "none" THEN s
    ELSE [s EXCEPT !.loops = Append(@, [kind |-> kind, count |-> count, u32 |-> u32,
                                        turns |-> 0, pos |-> s.pos])]

TurnTimes(s, n) ==
    IF s.exc # "none" \/ s.loops = <<>> THEN s
    ELSE [s EXCEPT !.loops[Len(s.loops)].turns = @ + n]

Turn(s) == TurnTimes(s, 1)

Leave(s) ==
    IF s.exc # "none" \/ s.loops = <<>> THEN s
    ELSE Mark([s EXCEPT !.loops = SubSeq(@, 1, Len(@) - 1)], "loop_end",
              s.loops[Len(s.loops)])

\* a * b for byte counts; Python's integers do not overflow, and a count past
\* Huge is past the end of every file.
Huge == 2^30
Mul(a, b) == IF a = 0 \/ b = 0 THEN 0 ELSE IF a > Huge \div b THEN Huge ELSE a * b

\* self.stream.read(n): up to n bytes, fewer at the end of the file, never
\* an error.
StreamRead(s, n) ==
    IF s.exc # "none" THEN R(s, <<>>)
    ELSE R([s EXCEPT !.pos = Min(s.pos + n, Len(s.stream)), !.nreads = @ + 1],
           SubSeq(s.stream, s.pos + 1, Min(s.pos + n, Len(s.stream))))

\* struct.unpack(fmt, <the bytes read>): struct.error unless n bytes came.
UnpackBytes(r, n) ==
    IF Len(r.v) = n THEN r ELSE R(Raise(r.s, "struct.error"), Zeros(n))

Unpack(s, n) == UnpackBytes(StreamRead(s, n), n)

Unsigned(r) == R(r.s, LE(r.v))
Signed(r) == R(r.s, LEsigned(r.v))

ReadUchar(s) == Unsigned(Unpack(s, 1))
ReadUshort(s) == Unsigned(Unpack(s, 2))
ReadInt(s) == Signed(Unpack(s, 4))
ReadUint(s) == Unsigned(Unpack(s, 4))
ReadFloat(s) == Unpack(s, 4)
ReadDouble(s) == Unpack(s, 8)

(***************************************************************************)
(* The string table and _read_string.                                      *)
(***************************************************************************)
\* bytes.split(b'\x00'): the segments between NUL bytes, empty ones included;
\* k NUL bytes give k + 1 segments, the j-th one running from after the
\* (j-1)-th NUL to before the j-th.
SplitNul(bytes) ==
    LET nuls == {i \in 1..Len(bytes) : bytes[i] = 0}
        \* position of the j-th NUL; 0 before the first, Len + 1 after the last
        nul(j) == IF j = 0 THEN 0
                  ELSE IF j > Cardinality(nuls) THEN Len(bytes) + 1
                  ELSE CHOOSE i \in nuls : Cardinality({h \in nuls : h < i}) = j - 1
    IN [j \in 1..(Cardinality(nuls) + 1) |->
           SubSeq(bytes, nul(j - 1) + 1, nul(j) - 1)]

\* [s.decode(...) for s in segs if s]
RECURSIVE DecodeNonEmpty(_, _)
DecodeNonEmpty(segs, i) ==
    IF i > Len(segs) THEN <<>>
    ELSE IF segs[i] # <<>> THEN <<Decode(segs[i])>> \o DecodeNonEmpty(segs, i + 1)
    ELSE DecodeNonEmpty(segs, i + 1)

\* the comprehension without its filter: empty segments keep their places
BuildStringLookupKeepEmpty(blob) ==
    [j \in 1..Len(SplitNul(blob)) |-> Decode(SplitNul(blob)[j])]

\* [s.decode('windows-1251', 'replace') for s in blob.split(b'\x00') if s]
BuildStringLookup(blob) == DecodeNonEmpty(SplitNul(blob), 1)

\* self.string_lookup[i] for a u32 i: IndexError at or past the end.
LookupString(s, i) ==
    IF i < Len(s.string_lookup)
    THEN R(Mark(s, "string_ref", [index |-> i, ok |-> TRUE,
                                  value |-> s.string_lookup[i + 1]]),
           s.string_lookup[i + 1])
    ELSE R(Raise(Mark(s, "string_ref", [index |-> i, ok |-> FALSE, value |-> <<>>]),
                 "IndexError"), <<>>)

\* return self.string_lookup[self._read_uint()]
ReadTableString(i) ==
    IF i.s.exc # "none" THEN R(i.s, <<>>) ELSE LookupString(i.s, i.v)

DecodeRead(b) == R(b.s, Decode(b.v))

\* return self.stream.read(self._read_uint()).decode('windows-1251', ...)
ReadLiteralString(n) ==
    IF n.s.exc # "none" THEN R(n.s, <<>>)
    ELSE DecodeRead(StreamRead(Mark(n.s, "string_literal", n.v), n.v))

\* _read_string(is_uint_string)
ReadString(s, is_uint_string) ==
    IF s.version = 10 /\ ~is_uint_string THEN ReadTableString(ReadUint(s))
    ELSE ReadLiteralString(ReadUint(s))

(***************************************************************************)
(* Python values.                                                          *)
(***************************************************************************)
None == [kind |-> "None"]

EmptyDict == <<>>

\* d[name] = value
DictSet(d, name, value) ==
    [k \in (DOMAIN d) \cup {name} |-> IF k = name THEN value ELSE d[k]]

\* Material(): the dataclass defaults; dyn holds the attributes that setattr
\* added (blending, material_name).
NewMaterial ==
    [ kind |-> "Material", name |-> <<>>, textures |-> <<>>, uniforms |-> EmptyDict,
      vertex_format |-> None, material_name |-> <<>>, blending |-> 0, dyn |-> {} ]

\* Node(name=..., properties=...)
NewNode(name, props) ==
    [ kind |-> "Node", name |-> name, properties |-> props, transform |-> None ]

\* RootNode(name=..., properties=...)
NewRootNode(name, props) ==
    [ kind |-> "RootNode", name |-> name, properties |-> props, transform |-> None,
      materials |-> <<>>, bounding_box_min |-> None, bounding_box_max |-> None ]

\* RenderNode(name=...)
NewRenderNode(name) ==
    [ kind |-> "RenderNode", name |-> name, properties |-> EmptyDict,
      transform |-> None, material_id |-> 0, parent_data |-> <<>>,
      vertices |-> <<>>, indices |-> <<>> ]

\* ArgAnimationNode(name=...)
NewArgAnimationNode(name) ==
    [ kind |-> "ArgAnimationNode", name |-> name, properties |-> EmptyDict,
      transform |-> None, position_data |-> <<>>, rotation_data |-> <<>>,
      scale_data |-> <<>> ]

\* The skip of _read_arg_animation_node: "version, props, transforms".
ArgAnimationSkipShort == 8 + 8*16 + 8*3 + 4*4 + 4*4
ArgAnimationSkip == 8 + 8*16 + 8*3 + 4*4 + 4*4 + 8*3

\* {0: '<B', 1: '<H', 2: '<I'}.get(index_type), as struct.calcsize of the
\* format; 0 stands for None.
IndexWidth(index_type) ==
    CASE index_type = 0 -> 1
      [] index_type = 1 -> 2
      [] index_type = 2 -> 4
      [] OTHER -> 0

\* self.stream.read(8 if parent_count == 1 else 12)
ParentEntrySize(parent_count) == IF parent_count = 1 THEN 8 ELSE 12

\* for _ in range(n): self.stream.read(size)
\* n reads, none of which can raise: the cursor stops at the end of the file
\* and the remaining turns read nothing.
SkipAll(s, n, size) ==
    [s EXCEPT !.pos = IF (Len(s.stream) - s.pos) \div size >= n
                      THEN s.pos + n * size
                      ELSE Len(s.stream),
              !.nreads = @ + n]

SkipTimes(s, n, size) ==
    IF s.exc # "none" THEN s
    ELSE IF n = 0 THEN Leave(s)
    ELSE Leave(SkipAll(TurnTimes(s, n), n, size))

(***************************************************************************)
(* The record decoders.  A reader is named by a string, as the bound       *)
(* methods and lambdas handed to _read_list are; Invoke calls it.          *)
(***************************************************************************)
RECURSIVE Invoke(_, _), ReadItems(_, _, _, _), ReadMapEntries(_, _),
          PropsToDict(_, _, _), ReadMaterialKeys(_, _, _)

\* [reader() for _ in range(n)]
ReadItemsNext(r, reader, n, acc) == ReadItems(r.s, reader, n - 1, Append(acc, r.v))

ReadItems(s, reader, n, acc) ==
    IF s.exc # "none" THEN R(s, <<>>)
    ELSE IF n = 0 THEN R(Leave(s), acc)
    ELSE ReadItemsNext(Invoke(reader, Turn(s)), reader, n, acc)

\* the comprehension taking one turn more than the count it read
ReadCountedOneMore(n, reader) ==
    ReadItems(Enter(n.s, "list", n.v, n.v), reader, n.v + 1, <<>>)

ReadCounted(n, reader) ==
    ReadItems(Enter(n.s, "list", n.v, n.v), reader, n.v, <<>>)

\* _read_list(reader)
ReadList(s, reader) == ReadCounted(ReadUint(s), reader)

\* {self._read_string(): self._read_uint() for _ in range(n)}; the mapping is
\* thrown away by parse, only the cursor matters.
ReadMapEntries(s, n) ==
    IF s.exc # "none" THEN s
    ELSE IF n = 0 THEN Leave(s)
    ELSE ReadMapEntries(ReadUint(ReadString(Turn(s), FALSE).s).s, n - 1)

ReadMapCounted(n) == R(ReadMapEntries(Enter(n.s, "map", n.v, n.v), n.v), None)

\* _read_map
ReadMap(s) == ReadMapCounted(ReadUint(s))

\* {"name": ..., "value": ...}
MakeProperty(name, value, type) ==
    R(value.s, [kind |-> "dict", name |-> name,
                value |-> IF type = "uint" THEN [uint |-> value.v]
                                           ELSE [float |-> value.v]])

PropertyValue(name, type) ==
    IF type = "uint" THEN MakeProperty(name.v, ReadUint(name.s), type)
    ELSE MakeProperty(name.v, ReadFloat(name.s), type)

\* the two Property lambdas of _setup_parsers
ReadProperty(s, type) == PropertyValue(ReadString(s, FALSE), type)

\* parser = self._type_parsers.get(type_name); an unknown tag prints a
\* warning and yields None.
DispatchNamedType(t) ==
    IF t.s.exc # "none" THEN R(t.s, None)
    ELSE CASE t.v = TagRootNode -> Invoke("root_node", t.s)
           [] t.v = TagNode -> Invoke("node", t.s)
           [] t.v = TagTransformNode -> Invoke("transform_node", t.s)
           [] t.v = TagRenderNode -> Invoke("render_node", t.s)
           [] t.v \in {TagArgAnimationNode, TagArgRotationNode, TagArgPositionNode} ->
                Invoke("arg_animation_node", t.s)
           [] t.v = TagPropertyUint -> Invoke("property_uint", t.s)
           [] t.v = TagPropertyFloat -> Invoke("property_float", t.s)
           [] OTHER -> R(Mark(t.s, "unknown_named_type", t.v), None)

\* _read_named_type
ReadNamedType(s) == DispatchNamedType(ReadString(s, FALSE))

\* {p['name']: p['value'] for p in props if p}: None is skipped, a node
\* object is truthy and not subscriptable (TypeError).
PropsToDict(s, props, d) ==
    IF props = <<>> THEN R(s, d)
    ELSE CASE props[1].kind = "None" -> PropsToDict(s, Tail(props), d)
           [] props[1].kind = "dict" ->
                PropsToDict(s, Tail(props), DictSet(d, props[1].name, props[1].value))
           [] OTHER -> R(Raise(s, "TypeError"), EmptyDict)

FoldProperties(props) ==
    IF props.s.exc # "none" THEN R(props.s, EmptyDict)
    ELSE PropsToDict(props.s, props.v, EmptyDict)

\* _read_properties_set
ReadPropertiesSet(s) == FoldProperties(ReadList(s, "named_type"))

\* setattr(mat, attr_name, value), for a dataclass field
SetAttr(mat, attr_name, value) == R(value.s, [mat EXCEPT ![attr_name] = value.v])

\* setattr(mat, attr_name, value), for an attribute the dataclass lacks
SetNewAttr(mat, attr_name, value) ==
    R(value.s, [mat EXCEPT ![attr_name] = value.v, !.dyn = @ \cup {attr_name}])

\* attr_name is None: the value is read and dropped
Discard(mat, value) == R(value.s, mat)

\* VertexFormat(self._read_list(self._read_uchar))
NewVertexFormat(list) == R(list.s, [kind |-> "VertexFormat", data |-> list.v])

\* one turn of the loop of _read_material, for the key just read
ReadMaterialValue(s, mat, key) ==
    CASE key = KeyBLENDING -> SetNewAttr(mat, "blending", ReadUchar(s))
      [] key \in {KeyCULLING, KeySHADOWS} -> Discard(mat, ReadUchar(s))
      [] key = KeyDEPTH_BIAS -> Discard(mat, ReadUint(s))
      [] key = KeyTEXTURES -> SetAttr(mat, "textures", ReadList(s, "texture_def"))
      [] key = KeyMATERIAL_NAME ->
           SetNewAttr(mat, "material_name", ReadString(s, FALSE))
      [] key = KeyNAME -> SetAttr(mat, "name", ReadString(s, FALSE))
      [] key = KeyVERTEX_FORMAT ->
           SetAttr(mat, "vertex_format", NewVertexFormat(ReadList(s, "uchar")))
      [] key = KeyUNIFORMS -> SetAttr(mat, "uniforms", Invoke("properties_set", s))
      [] key = KeyANIMATED_UNIFORMS -> Discard(mat, Invoke("properties_set", s))
      [] key = KeyTEXTURE_COORDINATE_CHANNELS -> Discard(mat, ReadList(s, "uint"))
      [] OTHER ->
           \* "skipping by assuming it's a properties set"
           Discard(mat, Invoke("properties_set",
                               Mark(s, "unknown_material_key", key)))

MaterialNextKey(v, n) == ReadMaterialKeys(v.s, n - 1, v.v)

MaterialKey(key, n, mat) ==
    IF key.s.exc # "none" THEN R(key.s, mat)
    ELSE MaterialNextKey(ReadMaterialValue(key.s, mat, key.v), n)

\* for _ in range(n): key = self._read_string(); ...
ReadMaterialKeys(s, n, mat) ==
    IF s.exc # "none" THEN R(s, mat)
    ELSE IF n = 0 THEN R(Leave(s), mat)
    ELSE MaterialKey(ReadString(Turn(s), FALSE), n, mat)

MaterialCounted(n) ==
    ReadMaterialKeys(Enter(n.s, "material", n.v, n.v), n.v, NewMaterial)

\* _read_material
ReadMaterial(s) == MaterialCounted(ReadUint(s))

\* _read_node_base: name, version (dropped), props
NodeBaseProps(name, props) == R(props.s, [name |-> name, props |-> props.v])

NodeBaseVersion(name) ==
    NodeBaseProps(name.v, Invoke("properties_set", ReadUint(name.s).s))

ReadNodeBase(s) == NodeBaseVersion(ReadString(Mark(s, "name_field", "node_base"), TRUE))

\* _read_root_node
RootReturn(node, mats) ==
    Return(StreamRead(mats.s, 2 * 4).s, [node EXCEPT !.materials = mats.v])

RootMaterialList(node, bb) ==
    IF bb.s.exc # "none" THEN R(bb.s, None)
    ELSE RootReturn([node EXCEPT !.bounding_box_min = SubSeq(bb.v, 1, 3),
                                 !.bounding_box_max = SubSeq(bb.v, 4, 6)],
                    ReadList(StreamRead(bb.s, 4 * 8).s, "material"))

RootBoundingBox(base) ==
    RootMaterialList(NewRootNode(base.v.name, base.v.props),
                     ReadItems(Enter(StreamRead(base.s, 1).s, "fixed", 6, 6), "double", 6, <<>>))

ReadRootNode(s) == RootBoundingBox(ReadNodeBase(s))

\* _read_texture_def
MakeTextureDef(index, filename, matrix) ==
    R(matrix.s, [ kind |-> "TextureDef", index |-> index, filename |-> filename,
                  transform |-> matrix.v ])

TextureMatrix(index, filename) ==
    MakeTextureDef(index, filename.v,
                   ReadItems(Enter(StreamRead(filename.s, 16).s, "fixed", 16, 16),
                             "float", 16, <<>>))

\* the filename read the way the node names are: _read_string(is_uint_string=True)
TextureFilenameLiteral(index) ==
    TextureMatrix(index.v, ReadString(Mark(StreamRead(index.s, 4).s,
                                           "texture_filename", 0), TRUE))

TextureFilename(index) ==
    TextureMatrix(index.v, ReadString(Mark(StreamRead(index.s, 4).s,
                                           "texture_filename", 0), FALSE))

ReadTextureDef(s) == TextureFilename(ReadInt(s))

\* _read_node
MakeNode(base) == R(base.s, NewNode(base.v.name, base.v.props))

ReadNode(s) == MakeNode(ReadNodeBase(s))

\* _read_transform_node: the object stays a Node, with its transform set.
SetTransform(node, m) ==
    R(m.s, [node EXCEPT !.transform = [kind |-> "MatrixD", data |-> m.v]])

TransformMatrix(node) ==
    SetTransform(node.v, ReadItems(Enter(node.s, "fixed", 16, 16), "double", 16, <<>>))

ReadTransformNode(s) == TransformMatrix(ReadNode(s))

\* _read_render_node, from its last statement back to its first
RenderReturn(node, index_type, index_entries, indices) ==
    Return(Mark(indices.s, "render_node",
                [index_type |-> index_type, index_entries |-> index_entries]),
           [node EXCEPT !.indices = indices.v])

\* [struct.unpack(fmt, self.stream.read(struct.calcsize(fmt)))[0]
\*  for _ in range(index_entries)]: struct.calcsize(None) is a TypeError,
\* raised by the first turn; no turn, no error.
ReadIndices(s, width, index_entries) ==
    CASE width = 0 ->
           IF index_entries = 0 THEN R(Leave(s), <<>>)
           ELSE R(Raise(Turn(s), "TypeError"), <<>>)
      [] width = 1 -> ReadItems(s, "index_B", index_entries, <<>>)
      [] width = 2 -> ReadItems(s, "index_H", index_entries, <<>>)
      [] OTHER -> ReadItems(s, "index_I", index_entries, <<>>)

RenderIndices(node, index_type, index_entries) ==
    RenderReturn(node, index_type, index_entries.v,
                 ReadIndices(Enter(StreamRead(index_entries.s, 4).s, "indices",
                                   index_entries.v, index_entries.v),
                             IndexWidth(index_type), index_entries.v))

RenderIndexEntries(node, index_type) ==
    RenderIndices(node, index_type.v, ReadUint(index_type.s))

RenderIndexType(node, vertices) ==
    RenderIndexEntries([node EXCEPT !.vertices = vertices.v], ReadUchar(vertices.s))

RenderVertices(node, vert_count, vert_stride) ==
    RenderIndexType(node, ReadItems(Enter(vert_stride.s, "vertices",
                                          Mul(vert_count, vert_stride.v),
                                          vert_stride.v),
                                    "float", Mul(vert_count, vert_stride.v), <<>>))

RenderVertStride(node, vert_count) ==
    RenderVertices(node, vert_count.v, ReadUint(vert_count.s))

RenderParents(node, parent_count) ==
    RenderVertStride(node, ReadUint(SkipTimes(Enter(parent_count.s, "parent_skip",
                                                    parent_count.v, parent_count.v),
                                              parent_count.v,
                                              ParentEntrySize(parent_count.v))))

RenderParentCount(node, material_id) ==
    RenderParents([node EXCEPT !.material_id = material_id.v],
                  ReadUint(material_id.s))

RenderMaterialId(node, props) ==
    RenderParentCount([node EXCEPT !.properties = props.v],
                      ReadUint(StreamRead(props.s, 4).s))

RenderProperties(name) ==
    RenderMaterialId(NewRenderNode(name.v),
                     Invoke("properties_set", ReadUint(name.s).s))

ReadRenderNode(s) ==
    RenderProperties(ReadString(Mark(s, "name_field", "render_node"), TRUE))

\* Key(frame, value) of read_anim_data's reader table
MakeKey(frame, value) == R(value.s, [kind |-> "Key", frame |-> frame, value |-> value.v])

KeyValue(frame, key_type_char) ==
    IF key_type_char = "p"
    THEN MakeKey(frame.v, ReadItems(Enter(frame.s, "fixed", 3, 3), "double", 3, <<>>))
    ELSE MakeKey(frame.v, ReadItems(Enter(frame.s, "fixed", 4, 4), "float", 4, <<>>))

ReadKey(s, key_type_char) == KeyValue(ReadDouble(s), key_type_char)

\* if key_type_char == 's': self.stream.read(self._read_uint() * (8 + 3*4))
ScaleTail(n) == StreamRead(n.s, Mul(n.v, 8 + 3*4)).s

AnimReturn(arg, keys, key_type_char) ==
    R(IF key_type_char = "s" THEN ScaleTail(ReadUint(keys.s)) ELSE keys.s,
      [kind |-> "ArgAnimationData", argument |-> arg, keys |-> keys.v])

AnimKeys(arg, key_type_char) ==
    AnimReturn(arg.v,
               CASE key_type_char = "p" -> ReadList(arg.s, "key_p")
                 [] key_type_char = "r" -> ReadList(arg.s, "key_r")
                 [] OTHER -> ReadList(arg.s, "key_s"),
               key_type_char)

\* read_anim_data(key_type_char)
ReadAnimData(s, key_type_char) == AnimKeys(ReadUint(s), key_type_char)

\* _read_arg_animation_node, from its last statement back to its first
ArgReturn(node, scale_data) ==
    Return(scale_data.s, [node EXCEPT !.scale_data = scale_data.v])

ArgScale(node, rotation_data) ==
    ArgReturn([node EXCEPT !.rotation_data = rotation_data.v],
              ReadList(rotation_data.s, "anim_s"))

ArgRotation(node, position_data) ==
    ArgScale([node EXCEPT !.position_data = position_data.v],
             ReadList(position_data.s, "anim_r"))

ArgPosition(node, count) ==
    ArgRotation(node, ReadItems(Enter(Mark(count.s, "arg_position_count_read", count.v),
                                      "list", count.v, count.v),
                                "anim_p", count.v, <<>>))

ArgSkip(name) ==
    ArgPosition(NewArgAnimationNode(name.v),
                ReadUint(Mark(StreamRead(Mark(name.s, "arg_name_end", 0),
                                         ArgAnimationSkip).s,
                              "arg_position_count", 0)))

ReadArgAnimationNode(s) ==
    ArgSkip(ReadString(Mark(s, "name_field", "arg_animation_node"), TRUE))

\* reader(): the callables handed to _read_list, the entries of
\* self._type_parsers and the bodies of the list comprehensions.
Invoke(reader, s) ==
    CASE reader = "named_type" -> ReadNamedType(s)
      [] reader = "uint" -> ReadUint(s)
      [] reader = "uchar" -> ReadUchar(s)
      [] reader = "float" -> ReadFloat(s)
      [] reader = "double" -> ReadDouble(s)
      [] reader = "material" -> ReadMaterial(s)
      [] reader = "texture_def" -> ReadTextureDef(s)
      [] reader = "index_B" -> ReadUchar(s)
      [] reader = "index_H" -> ReadUshort(s)
      [] reader = "index_I" -> ReadUint(s)
      [] reader = "key_p" -> ReadKey(s, "p")
      [] reader = "key_r" -> ReadKey(s, "r")
      [] reader = "key_s" -> ReadKey(s, "s")
      [] reader = "anim_p" -> ReadAnimData(s, "p")
      [] reader = "anim_r" -> ReadAnimData(s, "r")
      [] reader = "anim_s" -> ReadAnimData(s, "s")
      [] reader = "root_node" -> ReadRootNode(s)
      [] reader = "node" -> ReadNode(s)
      [] reader = "transform_node" -> ReadTransformNode(s)
      [] reader = "render_node" -> ReadRenderNode(s)
      [] reader = "arg_animation_node" -> ReadArgAnimationNode(s)
      [] reader = "property_uint" -> ReadProperty(s, "uint")
      [] reader = "property_float" -> ReadProperty(s, "float")
      [] reader = "properties_set" -> ReadPropertiesSet(s)

(***************************************************************************)
(* VertexFormat (types.py).                                                *)
(***************************************************************************)
\* VertexFormat.stride
Stride(data) == SumSeq(data)

\* _get_offset with the slot's own width added in: sum(self.data[:i + 1])
GetOffsetInclusive(data, i) ==
    IF i >= Len(data) \/ data[i + 1] = 0 THEN -1
    ELSE SumSeq(SubSeq(data, 1, i + 1))

\* VertexFormat._get_offset(i), i counted from 0
GetOffset(data, i) ==
    IF i >= Len(data) \/ data[i + 1] = 0 THEN -1
    ELSE SumSeq(SubSeq(data, 1, i))

PositionOffset(data) == GetOffset(data, 0)
NormalOffset(data) == GetOffset(data, 1)
GetUvOffset(data, i) == GetOffset(data, 4 + i)

(***************************************************************************)
(* The files the decoder is run on.  They are written field by field with  *)
(* the widths of the format, in both string encodings: version 10 carries  *)
(* the string table and refers to it by index, any other version spells    *)
(* every string out.                                                       *)
(***************************************************************************)
MaxParents == 2
MaxIndexEntries == 3
MaxVertCount == 2
MaxParentCount == 2
MaxKeys == 1

Versions == {9, 10}

U32(n) == <<n % 256, (n \div 256) % 256, (n \div 65536) % 256, n \div 16777216>>
U16(n) == <<n % 256, n \div 256>>
Fill(n, b) == [i \in 1..n |-> b]

TagBogus == <<109, 111, 100, 101, 108, 58, 58, 66, 111, 103, 117, 115>>
KeyUNKNOWN_KEY_X == <<85, 78, 75, 78, 79, 87, 78, 95, 75, 69, 89, 95, 88>>
NameA == <<97>>
NameP == <<112>>
NameCyr == <<200, 152>>

\* The strings of the version-10 table, in table order.
TableStrings ==
    << TagRootNode, TagNode, TagTransformNode, TagRenderNode, TagArgAnimationNode,
       TagArgRotationNode, TagArgPositionNode, TagPropertyUint, TagPropertyFloat,
       TagBogus, KeyVERTEX_FORMAT, KeyNAME, KeyTEXTURES, KeyUNIFORMS, KeyBLENDING,
       KeyUNKNOWN_KEY_X, NameA, NameP, NameCyr >>

\* The blob: a leading NUL, every string NUL-terminated, and a doubled NUL
\* after the first one, so that empty segments occur.
Blob ==
    <<0>> \o TableStrings[1] \o <<0, 0>>
    \o Flatten([i \in 1..(Len(TableStrings) - 1) |-> TableStrings[i + 1] \o <<0>>])

TableIndex(str) == (CHOOSE i \in 1..Len(TableStrings) : TableStrings[i] = str) - 1

Lit(str) == U32(Len(str)) \o str
Str(ver, str) == IF ver = 10 THEN U32(TableIndex(str)) ELSE Lit(str)

Magic == <<69, 68, 77>>

Header(ver) ==
    Magic \o U16(ver) \o (IF ver = 10 THEN U32(Len(Blob)) \o Blob ELSE <<>>)

EncList(items) == U32(Len(items)) \o Flatten(items)

EncPropUint(ver, name, n) == Str(ver, TagPropertyUint) \o Str(ver, name) \o U32(n)
EncPropFloat(ver, name) == Str(ver, TagPropertyFloat) \o Str(ver, name) \o <<0, 0, 128, 63>>
EncUnknown(ver) == Str(ver, TagBogus)

EncNodeBase(name, props) == Lit(name) \o U32(0) \o EncList(props)
EncNode(ver, props) == Str(ver, TagNode) \o EncNodeBase(NameA, props)
EncTransformNode(ver) ==
    Str(ver, TagTransformNode) \o EncNodeBase(NameA, <<>>) \o Fill(16 * 8, 1)

EncRenderNode(ver, material_id, parent_count, vert_count, vert_stride, index_type, index_entries) ==
    Str(ver, TagRenderNode) \o Lit(NameA) \o U32(0) \o EncList(<<>>) \o Fill(4, 2)
    \o U32(material_id) \o U32(parent_count)
    \o Fill(parent_count * (IF parent_count = 1 THEN 8 ELSE 12), 3)
    \o U32(vert_count) \o U32(vert_stride) \o Fill(4 * vert_count * vert_stride, 4)
    \o <<index_type>> \o U32(index_entries) \o Fill(4, 5)
    \o Fill(index_entries * (CASE index_type = 0 -> 1 [] index_type = 1 -> 2
                               [] OTHER -> 4), 6)

EncKey(c) == Fill(8, 7) \o Fill(IF c = "p" THEN 3 * 8 ELSE 4 * 4, 8)
EncAnimData(c, nkeys, ntail) ==
    U32(5) \o EncList([i \in 1..nkeys |-> EncKey(c)])
    \o (IF c = "s" THEN U32(ntail) \o Fill(ntail * 20, 9) ELSE <<>>)

EncArgAnimationNode(ver, tag, np, nr, ns) ==
    Str(ver, tag) \o Lit(NameA) \o Fill(216, 10)
    \o EncList([i \in 1..np |-> EncAnimData("p", MaxKeys, 0)])
    \o EncList([i \in 1..nr |-> EncAnimData("r", MaxKeys, 0)])
    \o EncList([i \in 1..ns |-> EncAnimData("s", MaxKeys, 1)])

EncTextureDef(ver) ==
    U32(0) \o Fill(4, 11) \o Str(ver, NameA) \o Fill(16, 12) \o Fill(16 * 4, 13)

EncMaterial(entries) == EncList(entries)
EncVertexFormat(ver, widths) == Str(ver, KeyVERTEX_FORMAT) \o U32(Len(widths)) \o widths

EncRootNode(ver, props, materials) ==
    Str(ver, TagRootNode) \o EncNodeBase(NameA, props) \o <<0>> \o Fill(6 * 8, 14)
    \o Fill(4 * 8, 15) \o EncList(materials) \o Fill(2 * 4, 16)

EncFile(ver, root, nodes, parents) ==
    Header(ver) \o U32(0) \o U32(0) \o root \o EncList(nodes)
    \o EncList([i \in 1..parents |-> U32(i - 1)])

StdMaterial(ver) == EncMaterial(<<EncVertexFormat(ver, <<3, 3>>)>>)
StdRoot(ver) == EncRootNode(ver, <<>>, <<StdMaterial(ver)>>)

\* Materials: the recognised keys, and a key the table does not hold,
\* followed by what a properties set of no entry looks like.
MaterialVariants(ver) ==
    { EncMaterial(<<>>),
      EncMaterial(<< Str(ver, KeyNAME) \o Str(ver, NameCyr),
                     Str(ver, KeyBLENDING) \o <<1>>,
                     Str(ver, KeyTEXTURES) \o EncList(<<EncTextureDef(ver)>>),
                     Str(ver, KeyUNIFORMS)
                       \o EncList(<<EncPropUint(ver, NameP, 7), EncPropFloat(ver, NameA)>>),
                     EncVertexFormat(ver, <<3, 0, 2>>) >>),
      EncMaterial(<< Str(ver, KeyUNKNOWN_KEY_X) \o U32(0),
                     EncVertexFormat(ver, <<3>>) >>),
      EncMaterial(<< Str(ver, KeyUNKNOWN_KEY_X) \o U32(1) \o EncUnknown(ver) >>) }

\* What may stand where the root node is expected.
RootVariants(ver) ==
    { EncRootNode(ver, <<>>, <<>>),
      EncRootNode(ver, <<EncPropUint(ver, NameP, 7), EncPropFloat(ver, NameP)>>, <<>>),
      EncRootNode(ver, <<EncUnknown(ver), EncPropUint(ver, NameP, 7)>>, <<>>),
      EncRootNode(ver, <<EncNode(ver, <<>>)>>, <<>>),
      EncNode(ver, <<>>),
      EncTransformNode(ver),
      EncRenderNode(ver, 0, 0, 0, 0, 0, 0),
      EncArgAnimationNode(ver, TagArgAnimationNode, 0, 0, 0),
      EncPropUint(ver, NameP, 7),
      EncPropFloat(ver, NameP),
      EncUnknown(ver) }
    \cup { EncRootNode(ver, <<>>, <<m>>) : m \in MaterialVariants(ver) }

\* What may stand in the node list.
RenderVariants(ver) ==
    { EncRenderNode(ver, 0, 0, 0, 0, t, n) : t \in 0..3, n \in 0..MaxIndexEntries }
    \cup { EncRenderNode(ver, 0, c, 0, 0, 0, 0) : c \in 1..MaxParentCount }
    \cup { EncRenderNode(ver, m, 0, c, 6, 1, 3) : m \in 0..1, c \in 1..MaxVertCount }
    \cup { EncRenderNode(ver, 0, 0, 1, 5, 2, 3) }

ArgVariants(ver) ==
    { EncArgAnimationNode(ver, TagArgAnimationNode, 1, 1, 1),
      EncArgAnimationNode(ver, TagArgRotationNode, 0, 1, 0),
      EncArgAnimationNode(ver, TagArgPositionNode, 1, 0, 0) }

NodeVariants(ver) ==
    { EncNode(ver, <<>>), EncNode(ver, <<EncPropUint(ver, NameP, 7)>>),
      EncNode(ver, <<EncUnknown(ver)>>), EncTransformNode(ver), EncUnknown(ver),
      EncPropUint(ver, NameP, 7) }
    \cup RenderVariants(ver) \cup ArgVariants(ver)

\* Files that break the format: a wrong magic, string references at or past
\* the end of the table (as the first tag and after a root node that
\* decoded), a table with no string.
Malformed ==
    { <<>>, <<69, 68, 88, 9, 0>>,
      EncFile(10, StdRoot(10), <<U32(Len(TableStrings) + 1)>>, 0),
      Header(10) \o U32(0) \o U32(0) \o U32(Len(TableStrings)),
      Header(10) \o U32(0) \o U32(0) \o U32(Len(TableStrings) + 7),
      Magic \o U16(10) \o U32(6) \o <<0, 0, 120, 0, 0, 121>> \o U32(0) \o U32(0) \o U32(1),
      Magic \o U16(10) \o U32(0) \o U32(0) \o U32(0) \o U32(0) }

Files ==
    UNION { { EncFile(ver, r, <<>>, 0) : r \in RootVariants(ver) }
            \cup { EncFile(ver, StdRoot(ver), <<n>>, 1) : n \in NodeVariants(ver) }
            \cup { EncFile(ver, StdRoot(ver), [i \in 1..k |-> EncNode(ver, <<>>)], q) :
                     k \in 0..2, q \in 0..MaxParents }
            \cup { Header(ver) \o U32(1) \o Str(ver, NameA) \o U32(7) \o U32(0)
                   \o StdRoot(ver) \o U32(0) \o U32(0) }
          : ver \in Versions }
    \cup Malformed

(***************************************************************************)
(* The state: the decoder object, the EdmFile under construction, the      *)
(* statement of parse() to run next, and the file the session started      *)
(* from.  A session decodes one file; a file that decoded may be decoded   *)
(* again cut short (a new EdmParser on the first k bytes).                 *)
(***************************************************************************)
\* self, edm_file: the parser object and the local of parse(); pc: the
\* statement of parse() that runs next; file: the bytes on disk; cut: the
\* length the file was truncated to (-1: whole); vf, result: a VertexFormat's
\* data and the last value one of its members gave.
VARIABLES self, edm_file, pc, file, cut, vf, result

vars == <<self, edm_file, pc, file, cut, vf, result>>

NoResult == [op |-> "none", slot |-> -1, v |-> 0]

\* EdmFile(version=...): the dataclass defaults
NewEdmFile(version) ==
    [ kind |-> "EdmFile", version |-> version, root_node |-> None, nodes |-> <<>>,
      node_parents |-> <<>>, materials |-> <<>> ]

Init ==
    /\ file \in Files
    /\ self = NewParser(file)
    /\ edm_file = None
    /\ pc = "magic"
    /\ cut = -1
    /\ vf = <<>>
    /\ result = NoResult

\* the statement that raised ends the session; otherwise on to the next one
Goto(s, next) == IF s.exc # "none" THEN "raised" ELSE next

\* if self.stream.read(3) != b'EDM': raise ValueError("Not an EDM file")
CompareMagic(r) == IF r.v # Magic THEN Raise(r.s, "ValueError") ELSE r.s

CheckMagic(s) == CompareMagic(StreamRead(s, 3))

ParseMagic ==
    /\ pc = "magic"
    /\ self' = CheckMagic(self)
    /\ pc' = Goto(self', "version")
    /\ UNCHANGED <<edm_file, file, cut, vf, result>>

SetVersion(r) == IF r.s.exc # "none" THEN r.s ELSE [r.s EXCEPT !.version = r.v]

\* self.version = self._read_ushort()
ParseVersion ==
    /\ pc = "version"
    /\ self' = SetVersion(ReadUshort(self))
    /\ pc' = Goto(self', "string_table")
    /\ UNCHANGED <<edm_file, file, cut, vf, result>>

\* if self.version == 10: size = ...; self.string_lookup = [...]
SetStringLookup(blob) == [blob.s EXCEPT !.string_lookup = BuildStringLookup(blob.v)]

ReadBlob(size) ==
    IF size.s.exc # "none" THEN size.s
    ELSE SetStringLookup(StreamRead(size.s, size.v))

LoadStringTable(s) == IF s.version # 10 THEN s ELSE ReadBlob(ReadUint(s))

ParseStringTable ==
    /\ pc = "string_table"
    /\ self' = LoadStringTable(self)
    /\ pc' = Goto(self', "indexA")
    /\ UNCHANGED <<edm_file, file, cut, vf, result>>

\* self._read_map() # Skip IndexA
ParseIndexA ==
    /\ pc = "indexA"
    /\ self' = ReadMap(self).s
    /\ pc' = Goto(self', "indexB")
    /\ UNCHANGED <<edm_file, file, cut, vf, result>>

\* self._read_map() # Skip IndexB
ParseIndexB ==
    /\ pc = "indexB"
    /\ self' = ReadMap(self).s
    /\ pc' = Goto(self', "root")
    /\ UNCHANGED <<edm_file, file, cut, vf, result>>

\* edm_file = EdmFile(version=self.version)
\* edm_file.root_node = self._read_named_type()
ParseRootNode ==
    /\ pc = "root"
    /\ \E r \in {ReadNamedType(self)} :
          /\ self' = r.s
          /\ edm_file' = IF r.s.exc # "none" THEN NewEdmFile(self.version)
                         ELSE [NewEdmFile(self.version) EXCEPT !.root_node = r.v]
    /\ pc' = Goto(self', "nodes")
    /\ UNCHANGED <<file, cut, vf, result>>

\* edm_file.nodes = self._read_list(self._read_named_type)
ParseNodes ==
    /\ pc = "nodes"
    /\ \E r \in {ReadList(self, "named_type")} :
          /\ self' = r.s
          /\ edm_file' = IF r.s.exc # "none" THEN edm_file
                         ELSE [edm_file EXCEPT !.nodes = r.v]
    /\ pc' = Goto(self', "parents")
    /\ UNCHANGED <<file, cut, vf, result>>

\* edm_file.node_parents = self._read_list(self._read_uint)
ParseNodeParents ==
    /\ pc = "parents"
    /\ \E r \in {ReadList(self, "uint")} :
          /\ self' = r.s
          /\ edm_file' = IF r.s.exc # "none" THEN edm_file
                         ELSE [edm_file EXCEPT !.node_parents = r.v]
    /\ pc' = Goto(self', "return")
    /\ UNCHANGED <<file, cut, vf, result>>

\* edm_file.root_node.materials: only a RootNode object has the attribute
\* (None, a dict and the other node classes raise AttributeError).
RootMaterialsLenient(root) ==
    IF root.kind = "RootNode" THEN [ok |-> TRUE, v |-> root.materials]
    ELSE [ok |-> TRUE, v |-> <<>>]
RootMaterials(root) ==
    IF root.kind = "RootNode" THEN [ok |-> TRUE, v |-> root.materials]
    ELSE [ok |-> FALSE, v |-> <<>>]

\* edm_file.materials = edm_file.root_node.materials; return edm_file
ParseReturn ==
    /\ pc = "return"
    /\ \E m \in {RootMaterials(edm_file.root_node)} :
          IF m.ok
          THEN /\ edm_file' = [edm_file EXCEPT !.materials = m.v]
               /\ self' = self
               /\ pc' = "returned"
          ELSE /\ edm_file' = edm_file
               /\ self' = Raise(self, "AttributeError")
               /\ pc' = "raised"
    /\ UNCHANGED <<file, cut, vf, result>>

\* A file that decoded is decoded again from its first k bytes, k below the
\* number of bytes the decode consumed.
Truncate ==
    /\ pc = "returned"
    /\ cut = -1
    /\ \E k \in 0..(self.pos - 1) :
          /\ cut' = k
          /\ self' = NewParser(SubSeq(file, 1, k))
    /\ edm_file' = None
    /\ pc' = "magic"
    /\ UNCHANGED <<file, vf, result>>

Next ==
    \/ ParseMagic
    \/ ParseVersion
    \/ ParseStringTable
    \/ ParseIndexA
    \/ ParseIndexB
    \/ ParseRootNode
    \/ ParseNodes
    \/ ParseNodeParents
    \/ ParseReturn
    \/ Truncate

Spec == Init /\ [][Next]_vars

\* A statement is left to run, or a file that decoded is still to be cut:
\* the states in which Next can take a step.
NextEnabled ==
    \/ pc \notin {"returned", "raised"}
    \/ pc = "returned" /\ cut = -1 /\ self.pos > 0

\* parse() runs on one thread from its first statement to its return or to
\* the exception that leaves it: a statement that can run does run.  This is
\* weak fairness of Next, []<>~ENABLED <<Next>>_vars \/ []<><<Next>>_vars,
\* with the enabling condition of Next written out.
FairSpec == Spec /\ ([]<>(~NextEnabled) \/ []<><<Next>>_vars)

(***************************************************************************)
(* VertexFormat on its own: a format is built over a list of widths and    *)
(* its members are read.                                                   *)
(***************************************************************************)
MaxWidths == 6
MaxWidth == 2

WidthLists == UNION {[1..n -> 0..MaxWidth] : n \in 0..MaxWidths}

\* VertexFormat(data)
InitVF ==
    /\ vf \in WidthLists
    /\ result = NoResult
    /\ file = <<>>
    /\ self = NewParser(file)
    /\ edm_file = None
    /\ pc = "vertex_format"
    /\ cut = -1

\* vf.stride
CallStride ==
    /\ pc = "vertex_format"
    /\ result' = [op |-> "stride", slot |-> -1, v |-> Stride(vf)]
    /\ UNCHANGED <<self, edm_file, pc, file, cut, vf>>

\* vf.position_offset
CallPositionOffset ==
    /\ pc = "vertex_format"
    /\ result' = [op |-> "position_offset", slot |-> 0, v |-> PositionOffset(vf)]
    /\ UNCHANGED <<self, edm_file, pc, file, cut, vf>>

\* vf.normal_offset
CallNormalOffset ==
    /\ pc = "vertex_format"
    /\ result' = [op |-> "normal_offset", slot |-> 1, v |-> NormalOffset(vf)]
    /\ UNCHANGED <<self, edm_file, pc, file, cut, vf>>

\* vf.get_uv_offset(i) for the UV channels 0..7
CallGetUvOffset ==
    /\ pc = "vertex_format"
    /\ \E i \in 0..7 :
          result' = [op |-> "get_uv_offset", slot |-> 4 + i, v |-> GetUvOffset(vf, i)]
    /\ UNCHANGED <<self, edm_file, pc, file, cut, vf>>

NextVF ==
    \/ CallStride
    \/ CallPositionOffset
    \/ CallNormalOffset
    \/ CallGetUvOffset

SpecVF == InitVF /\ [][NextVF]_vars

(***************************************************************************)
(* Properties of the decoder, checked on every state of Spec.              *)
(***************************************************************************)
Returned == pc = "returned"
Finished == pc \in {"returned", "raised"}

\* the places of self.marks where the decoder passed "what"
MarksOf(what) == {i \in 1..Len(self.marks) : self.marks[i].what = what}

\* C1: whenever parse returns an EdmFile, node_parents is as long as nodes.
\* parse() reads the two lists one after the other and never compares their
\* lengths, so this fails.
C1_ParentsMatchNodes ==
    Returned => Len(edm_file.node_parents) = Len(edm_file.nodes)

\* C2: once _read_named_type has read a tag that is none of the nine it
\* knows, the decode has failed: an exception is in flight, no EdmFile is
\* returned and no byte after the tag has been consumed.  The code returns
\* None for such a tag and goes on reading, so this fails.
C2_UnknownTagStopsDecode ==
    \A i \in MarksOf("unknown_named_type") :
        /\ pc = "raised"
        /\ self.exc # "none"
        /\ self.pos = self.marks[i].pos

\* C3: once _read_material has read a key that is none of the eleven it
\* knows, the decode has failed: an exception is in flight, no EdmFile is
\* returned and the value after the key has not been skipped.  The code
\* skips the value as a properties set and goes on, so this fails.
C3_UnknownMaterialKeyStopsDecode ==
    \A i \in MarksOf("unknown_material_key") :
        /\ pc = "raised"
        /\ self.exc # "none"
        /\ self.pos = self.marks[i].pos

\* C4: _read_render_node returns a RenderNode only for an index_type in
\* {0, 1, 2}, whatever index_entries is.  With index_entries = 0 the code
\* never uses the format it failed to look up, so this fails.
C4_ReturnedRenderNodeHasValidIndexType ==
    \A i \in MarksOf("render_node") : self.marks[i].arg.index_type \in {0, 1, 2}

\* C5: a session over the first k bytes of a file that decoded, k below the
\* number of bytes that decode consumed, ends with the end-of-input error
\* (struct.error) and without an EdmFile.  A cut inside the magic ends with
\* ValueError("Not an EDM file") instead, so this fails.
C5_TruncationIsEndOfInput ==
    cut >= 0 /\ Finished => pc = "raised" /\ self.exc = "struct.error"

\* C6: parse returns only when the record read as the root node is a
\* RootNode; with any other value there (a Node, a RenderNode, an
\* ArgAnimationNode, a property's dict, None) the last statement raises
\* AttributeError.
C6_NonRootNodeNeverReturned ==
    [][/\ pc' = "returned" /\ pc # "returned" => edm_file'.root_node.kind = "RootNode"
       /\ pc = "return" /\ edm_file.root_node.kind # "RootNode" =>
             pc' = "raised" /\ self'.exc = "AttributeError"]_vars

C6_NonRootNodeRaised ==
    /\ pc = "raised"
    /\ self.exc = "AttributeError"
    /\ edm_file.kind = "EdmFile"
    /\ edm_file.root_node.kind \in {"Node", "RenderNode", "ArgAnimationNode", "dict", "None"}

\* The string table as the file states it, read off the bytes and not off
\* the decoder: the blob is the size bytes after the u32 at offset 5; a
\* segment starts at a byte that is not NUL and follows a NUL or the start.
BlobOf(stream) == SubSeq(stream, 10, Min(9 + LE(SubSeq(stream, 6, 9)), Len(stream)))

SegmentStarts(blob) ==
    {p \in 1..Len(blob) : blob[p] # 0 /\ (p = 1 \/ blob[p - 1] = 0)}

\* value is the decoded segment of blob that starts at p
IsSegmentAt(blob, p, value) ==
    /\ Len(value) > 0
    /\ p + Len(value) - 1 <= Len(blob)
    /\ \A j \in 1..Len(value) :
          blob[p + j - 1] # 0 /\ value[j] = DecodeByte(blob[p + j - 1])
    /\ p + Len(value) > Len(blob) \/ blob[p + Len(value)] = 0

StringRefResolves(blob, starts, i) ==
    IF self.marks[i].arg.index < Cardinality(starts)
    THEN /\ self.marks[i].arg.ok
         /\ \E p \in starts :
               /\ Cardinality({q \in starts : q < p}) = self.marks[i].arg.index
               /\ IsSegmentAt(blob, p, self.marks[i].arg.value)
    ELSE /\ ~self.marks[i].arg.ok
         /\ i = Len(self.marks)
         /\ pc = "raised"
         /\ self.exc = "IndexError"

\* C7: in a version-10 session every string read by index gives, for an
\* index below the number of non-empty segments of the blob, the decoded
\* index-th non-empty segment (never an empty string), and raises IndexError
\* for any other index.
C7_StringRefsResolve ==
    \A i \in MarksOf("string_ref") :
        /\ self.version = 10
        /\ StringRefResolves(BlobOf(self.stream), SegmentStarts(BlobOf(self.stream)), i)

C7_ResolvedThenOutOfRange ==
    /\ pc = "raised"
    /\ self.exc = "IndexError"
    /\ \E i \in MarksOf("string_ref") :
          /\ self.marks[i].arg.ok
          /\ self.marks[i].arg.index > 0
    /\ \E i \in MarksOf("string_ref") :
          /\ ~self.marks[i].arg.ok
          /\ self.marks[i].arg.index >= Len(self.string_lookup)

\* n is a whole number of times d
IsMultipleOf(n, d) == \E k \in 0..n : n = k * d

RenderNodeFitsMaterial(node, materials) ==
    /\ IsMultipleOf(Len(node.indices), 3)
    /\ node.material_id < Len(materials)
    /\ materials[node.material_id + 1].vertex_format.kind = "VertexFormat"
    /\ IsMultipleOf(Len(node.vertices),
                    Stride(materials[node.material_id + 1].vertex_format.data))

\* C8: in a returned EdmFile every RenderNode has a whole number of index
\* triples and a whole number of vertices of its material's stride.  The
\* code stores the counts the file states without comparing them to
\* anything, so this fails.
C8_RenderNodesFitTheirMaterial ==
    Returned =>
        \A i \in 1..Len(edm_file.nodes) :
            edm_file.nodes[i].kind = "RenderNode" =>
                RenderNodeFitsMaterial(edm_file.nodes[i], edm_file.materials)

\* the sum of the first n widths of w
WidthsBefore(w, n) ==
    LET sum[k \in 0..n] == IF k = 0 THEN 0 ELSE sum[k - 1] + w[k]
    IN sum[n]

IsOffset == result.op \in {"position_offset", "normal_offset", "get_uv_offset"}

\* the slot each member asks _get_offset for
SlotOfMember ==
    /\ result.op = "position_offset" => result.slot = 0
    /\ result.op = "normal_offset" => result.slot = 1
    /\ result.op = "get_uv_offset" => result.slot \in 4..11

\* C9, as the code has it: the offset of a slot is -1 exactly when the slot
\* lies at or past the end of the width list or its width is 0, and is the
\* sum of the widths before the slot otherwise; stride is the sum of all
\* widths.
C9_OffsetAbsentOrSumBefore ==
    /\ SlotOfMember
    /\ IsOffset =>
          IF result.slot >= Len(vf) \/ vf[result.slot + 1] = 0
          THEN result.v = -1
          ELSE result.v = WidthsBefore(vf, result.slot) /\ result.v # -1
    /\ result.op = "stride" => result.v = WidthsBefore(vf, Len(vf))

C9_OffsetPastTheEnd ==
    /\ result.op = "get_uv_offset"
    /\ Len(vf) > 4
    /\ vf[5] # 0
    /\ result.slot >= Len(vf)
    /\ result.v = -1

\* C9, as stated: the offset is -1 exactly when the slot's width is 0, and
\* the sum of the widths before the slot otherwise, also for the slots a
\* short width list has no width for.
C9_OffsetAbsentOnlyForZeroWidth ==
    /\ SlotOfMember
    /\ IsOffset =>
          IF result.slot < Len(vf) /\ vf[result.slot + 1] = 0
          THEN result.v = -1
          ELSE result.v = WidthsBefore(vf, Min(result.slot, Len(vf))) /\ result.v # -1
    /\ result.op = "stride" => result.v = WidthsBefore(vf, Len(vf))

\* the marks _read_arg_animation_node leaves: the end of the name, the place
\* the count of the position track list is read from, the count once read
NameEndBefore(i) == self.marks[i - 1].what = "arg_name_end"

\* C10, as the code has it: between the end of the name and the count of the
\* position track list the cursor advances by 216 bytes, or to the end of
\* the input when fewer are left; the count is then read, if at all, from
\* the 4 bytes 216 past the end of the name.
C10_SkipIs216Bytes ==
    /\ \A i \in MarksOf("arg_position_count") :
          /\ i > 1 /\ NameEndBefore(i)
          /\ self.marks[i].pos - self.marks[i - 1].pos
                = Min(216, Len(self.stream) - self.marks[i - 1].pos)
    /\ \A i \in MarksOf("arg_position_count_read") :
          /\ i > 2 /\ NameEndBefore(i - 1)
          /\ self.marks[i - 1].what = "arg_position_count"
          /\ self.marks[i].pos = self.marks[i - 2].pos + 216 + 4

C10_PositionCountRead ==
    /\ Returned
    /\ cut = -1
    /\ \E i \in MarksOf("arg_position_count_read") : self.marks[i].arg > 0

\* C10, as stated: the cursor advances by exactly 164 bytes between the end
\* of the name and the count of the position track list.
C10_SkipIs164Bytes ==
    \A i \in MarksOf("arg_position_count") :
        /\ i > 1 /\ NameEndBefore(i)
        /\ self.marks[i].pos - self.marks[i - 1].pos = 164

\* the string read that follows the field mark at place i took the 4 bytes
\* at the mark as "what": a length ("string_literal") or an index into the
\* string table ("string_ref"); with no mark after it, that u32 was missing
ReadAs(i, what) ==
    IF i = Len(self.marks) THEN self.exc = "struct.error"
    ELSE /\ self.marks[i + 1].what = what
         /\ self.marks[i + 1].pos = self.marks[i].pos + 4

\* C11, as the code has it: the name of every node kind (Node, TransformNode
\* and RootNode through _read_node_base, RenderNode, ArgAnimationNode) is
\* read as a u32 length and that many bytes in every version; the filename
\* of a TextureDef is read by _read_string() with its default, so in a
\* version-10 file it is a u32 index into the string table, and a u32 length
\* and that many bytes in any other version.
C11_NodeNamesLiteralFilenamesByVersion ==
    /\ \A i \in MarksOf("name_field") : ReadAs(i, "string_literal")
    /\ \A i \in MarksOf("texture_filename") :
          ReadAs(i, IF self.version = 10 THEN "string_ref" ELSE "string_literal")

C11_FilenameReadFromTable ==
    /\ Returned
    /\ self.version = 10
    /\ \E i \in MarksOf("texture_filename") :
          /\ i < Len(self.marks)
          /\ self.marks[i + 1].what = "string_ref"
          /\ self.marks[i + 1].arg.ok
    /\ \E i \in MarksOf("name_field") :
          /\ i < Len(self.marks)
          /\ self.marks[i + 1].what = "string_literal"
          /\ self.marks[i + 1].arg > 0

\* C11, as stated: in a version-10 file the node names and the TextureDef
\* filenames are all read as a u32 length and that many bytes, never as an
\* index into the string table.
C11_NamesAndFilenamesAreLiteral ==
    self.version = 10 =>
        \A i \in MarksOf("name_field") \cup MarksOf("texture_filename") :
            ReadAs(i, "string_literal")

\* the loops the session has been in: those that ran out (the "loop_end"
\* marks) and those an exception left
LoopsEnded == {self.marks[i].arg : i \in MarksOf("loop_end")}
LoopsLeft == {self.loops[i] : i \in 1..Len(self.loops)}

\* the most turns the code gives a loop: the u32 count read before it, for
\* the vertex floats the product of the two u32 counts read before them, for
\* a range() over a constant the constant
LoopsWithinCounts ==
    /\ \A l \in LoopsEnded : l.turns = l.count
    /\ \A l \in LoopsLeft : l.turns >= 1 /\ l.turns <= l.count
    /\ \A l \in LoopsEnded \cup LoopsLeft :
          /\ l.kind \notin {"vertices", "fixed"} => l.count = l.u32
          /\ l.kind = "vertices" /\ l.count < Huge /\ l.u32 > 0 => l.count % l.u32 = 0

\* the places the decoder passed lie in file order, up to the cursor
CursorInOrder ==
    /\ self.pos <= Len(self.stream)
    /\ \A i \in 1..Len(self.marks) :
          /\ self.marks[i].pos <= self.pos
          /\ i > 1 => /\ self.marks[i - 1].pos <= self.marks[i].pos
                      /\ self.marks[i - 1].nreads <= self.marks[i].nreads
    /\ \A l \in LoopsEnded \cup LoopsLeft : l.pos <= self.pos

\* C12, as the code has it: every session ends (parse returns or raises);
\* the cursor never moves back; a counted loop takes exactly the count read
\* before it when it runs out and at most that when an exception leaves it,
\* the count of the vertex loop being vert_count * vert_stride; a skip loop
\* takes all its turns also past the end of the input.
C12_DecodeEndsWithinCounts ==
    /\ [](LoopsWithinCounts /\ CursorInOrder)
    /\ [][/\ NextEnabled
          /\ pc' # "magic" => self'.pos >= self.pos /\ self'.nreads >= self.nreads]_vars
    /\ (pc \notin {"returned", "raised"}) ~> Finished

C12_SkipLoopPastTheEnd ==
    /\ cut >= 0
    /\ pc = "raised"
    /\ \E i \in MarksOf("loop_end") :
          /\ self.marks[i].arg.kind = "parent_skip"
          /\ self.marks[i].arg.count >= 2
          /\ self.marks[i].arg.turns = self.marks[i].arg.count
          /\ self.marks[i].pos = Len(self.stream)
          /\ self.marks[i].arg.pos + 12 < Len(self.stream)
          /\ self.marks[i].arg.pos + 12 * self.marks[i].arg.count > Len(self.stream)

\* C12, as stated: the cursor never moves back and every counted loop
\* (lists, maps, materials, parent-entry skips, vertex and index reads, key
\* lists) takes at most as many turns as the u32 count read just before it.
C12_LoopsWithinTheCountJustRead ==
    /\ CursorInOrder
    /\ \A l \in LoopsEnded \cup LoopsLeft : l.kind # "fixed" => l.turns <= l.u32


=============================================================================
